---- MODULE Spec2Model ----
(***************************************************************************)
(* LudoCloud booking core: BookingsService.create / cancel, the catalog's  *)
(* GamesService.update, and the PostgreSQL store they run on.               *)
(*                                                                         *)
(* Every `await` of a service method is one statement against the store.   *)
(* Statements of different requests interleave freely.  A $transaction is  *)
(* modelled by the store's guarantees:                                     *)
(*  - create's transaction is Serializable: its first statement (the       *)
(*    overlap count) fixes the snapshot; its writes (insert, conditional   *)
(*    decrements, hold inserts) become visible together at commit, or not  *)
(*    at all.  A row it updates that another transaction changed after the *)
(*    snapshot raises a serialization failure; an insert that meets a      *)
(*    committed overlapping row raises the exclusion-constraint violation. *)
(*    Row locks only delay statements, so the writes are placed at the     *)
(*    commit point.                                                        *)
(*  - cancel's transaction runs at the default level (Read Committed):     *)
(*    its updates apply to the latest committed rows.                      *)
(* Instants are milliseconds since local midnight of day 0.                *)
(***************************************************************************)
EXTENDS Integers, Sequences, FiniteSets, TLC

VARIABLES now, tables, games, bookings, bookingGames, refreshTokens, calls, gameUpd, response

vars == <<now, tables, games, bookings, bookingGames, refreshTokens, calls, gameUpd, response>>

(* ------------------------------ bounds --------------------------------- *)
NumCalls == 2
MaxBookings == 2
MaxStock == 2
MaxQty == 1
MaxPicks == 2
MaxTokens == 5

(* ------------------------- program constants --------------------------- *)
MINUTES_IN_MS == 60 * 1000
HOUR_MS == 60 * 60 * 1000
DAY_MS == 24 * HOUR_MS

bookingSlotMinutes == 90
bookingOpenHour == 15
bookingCloseHour == 23
\* BOOKING_MAX_FUTURE_ACTIVE is set to 1 (the getter's fallback is 3)
maxFutureActiveBookings == 1
cancellationHours == 2
refreshExpiresDays == 7

\* an optional dto field left out (undefined)
None == -1
NaNDate == -2

At(day, h, m) == day * DAY_MS + h * HOUR_MS + m * MINUTES_IN_MS

(* ------------------------------ fixed data ----------------------------- *)
\* users and member profiles (members.user_id is unique)
Users == {"u1", "u2", "staff"}
role(userId) == IF userId = "staff" THEN "STAFF" ELSE "MEMBER"
Members == {[id |-> 1, userId |-> "u1"], [id |-> 2, userId |-> "u2"]}
MemberIds == {m.id : m \in Members}
\* dto.memberId: left out, a member, or an id no member has
MemberIdInputs == MemberIds \cup {None, 9}

TableIds == {1, 2}
\* dto.tableId: a table, or an id no table has
TableIdInputs == TableIds \cup {9}
GameIds == {1, 2}

\* request inputs
\* <<startAt, endAt>> of a request, after new Date(dto.startAt / dto.endAt):
\* an unparsable date, a 60 minute slot, a reversed slot, a slot ending after
\* closing time, and three 90 minute slots of day 1 (18:00, 18:45 and 19:30)
Windows == {<<NaNDate, At(1, 19, 30)>>,
            <<At(1, 18, 0), At(1, 19, 0)>>,
            <<At(1, 19, 30), At(1, 18, 0)>>,
            <<At(1, 22, 0), At(1, 23, 30)>>,
            <<At(1, 18, 0), At(1, 19, 30)>>,
            <<At(1, 18, 45), At(1, 20, 15)>>,
            <<At(1, 19, 30), At(1, 21, 0)>>}
PeopleCounts == {4, 7}
Picks == [gameId : GameIds, quantity : 1..MaxQty]
RECURSIVE SeqsUpTo(_, _)
SeqsUpTo(S, n) ==
  IF n = 0 THEN {<<>>}
  ELSE LET shorter == SeqsUpTo(S, n - 1)
       IN shorter \cup {Append(q, x) : q \in {r \in shorter : Len(r) = n - 1}, x \in S}
Selections == SeqsUpTo(Picks, MaxPicks)

\* the wall clock moves through these instants
ClockValues == <<At(0, 12, 0), At(1, 16, 45), At(1, 18, 30)>>

(* ------------------------------ booking rules -------------------------- *)
\* a slot rule that admits shorter slots
isAtMostSlotDuration(startAt, endAt, slotMinutes) ==
  endAt - startAt <= slotMinutes * MINUTES_IN_MS

isValidSlotDuration(startAt, endAt, slotMinutes) ==
  LET diff == endAt - startAt
  IN diff = slotMinutes * MINUTES_IN_MS

\* Date.toDateString(): the local calendar day of an instant
toDateString(d) == d \div DAY_MS
\* Date.setHours(h, 0, 0, 0) on a copy of d
setHours(d, h) == toDateString(d) * DAY_MS + h * HOUR_MS

\* an opening rule that shuts the opening and closing instants out
isStrictlyWithinOpeningHours(startAt, endAt, openHour, closeHour) ==
  IF toDateString(startAt) # toDateString(endAt) THEN FALSE
  ELSE LET openAt == setHours(startAt, openHour)
           closeAt == setHours(startAt, closeHour)
       IN startAt > openAt /\ endAt < closeAt

isWithinOpeningHours(startAt, endAt, openHour, closeHour) ==
  IF toDateString(startAt) # toDateString(endAt) THEN FALSE
  ELSE LET openAt == setHours(startAt, openHour)
           closeAt == setHours(startAt, closeHour)
       IN startAt >= openAt /\ endAt <= closeAt

(* ------------------------------ results -------------------------------- *)
Ok(v) == [ok |-> TRUE, value |-> v, kind |-> "OK", why |-> "ok"]
Throw(kind, why) == [ok |-> FALSE, value |-> 0, kind |-> kind, why |-> why]

\* a resolution that trusts the owner any caller names
resolveMemberIdAsRequested(userId, requestedMemberId) ==
  IF requestedMemberId = None
  THEN LET found == {m \in Members : m.userId = userId}
       IN IF found = {} THEN Throw("BadRequest", "memberRequired")
          ELSE Ok((CHOOSE m \in found : TRUE).id)
  ELSE IF requestedMemberId \notin MemberIds THEN Throw("NotFound", "member")
  ELSE Ok(requestedMemberId)

\* resolveMemberId: MEMBER books for the own profile, STAFF/ADMIN name a member
resolveMemberId(userId, requestedMemberId) ==
  IF role(userId) = "MEMBER"
  THEN LET found == {m \in Members : m.userId = userId}
       IN IF found = {} THEN Throw("Forbidden", "noProfile")
          ELSE LET member == CHOOSE m \in found : TRUE
               IN IF requestedMemberId # None /\ requestedMemberId # member.id
                  THEN Throw("Forbidden", "memberMismatch")
                  ELSE Ok(member.id)
  ELSE IF requestedMemberId = None THEN Throw("BadRequest", "memberRequired")
  ELSE LET found == {m \in Members : m.id = requestedMemberId}
       IN IF found = {} THEN Throw("NotFound", "member")
          ELSE Ok(requestedMemberId)

(* ------------------------------ the store ------------------------------ *)
\* an aggregation that keeps the quantity of a game's last pick
AggSet(agg, selection) ==
  IF \E i \in 1..Len(agg) : agg[i].gameId = selection.gameId
  THEN [i \in 1..Len(agg) |->
          IF agg[i].gameId = selection.gameId
          THEN [agg[i] EXCEPT !.quantity = selection.quantity]
          ELSE agg[i]]
  ELSE Append(agg, selection)

\* Map insertion order of aggregateSelection: first occurrence of each game
AggAdd(agg, selection) ==
  IF \E i \in 1..Len(agg) : agg[i].gameId = selection.gameId
  THEN [i \in 1..Len(agg) |->
          IF agg[i].gameId = selection.gameId
          THEN [agg[i] EXCEPT !.quantity = @ + selection.quantity]
          ELSE agg[i]]
  ELSE Append(agg, selection)

RECURSIVE aggregateSelection(_)
aggregateSelection(selections) ==
  IF selections = <<>> THEN <<>>
  ELSE AggAdd(aggregateSelection(SubSeq(selections, 1, Len(selections) - 1)),
              selections[Len(selections)])

AggKeys(agg) == {agg[i].gameId : i \in 1..Len(agg)}

\* a quota count that leaves out the status filter
allFutureBookings(memberId) ==
  Cardinality({i \in 1..Len(bookings) :
      bookings[i].memberId = memberId /\ bookings[i].startAt > now})

\* booking.count({memberId, startAt > now, status in [PENDING, CONFIRMED]})
activeFutureBookings(memberId) ==
  Cardinality({i \in 1..Len(bookings) :
      /\ bookings[i].memberId = memberId
      /\ bookings[i].startAt > now
      /\ bookings[i].status \in {"PENDING", "CONFIRMED"}})

\* an overlap count on closed intervals
overlapCountClosed(tableId, startAt, endAt) ==
  Cardinality({i \in 1..Len(bookings) :
      /\ bookings[i].tableId = tableId
      /\ bookings[i].status # "CANCELLED"
      /\ bookings[i].startAt <= endAt
      /\ bookings[i].endAt >= startAt})

\* tx.booking.count({tableId, status not CANCELLED, startAt < endAt, endAt > startAt})
overlapCount(tableId, startAt, endAt) ==
  Cardinality({i \in 1..Len(bookings) :
      /\ bookings[i].tableId = tableId
      /\ bookings[i].status # "CANCELLED"
      /\ bookings[i].startAt < endAt
      /\ bookings[i].endAt > startAt})

\* CHECK (end_at > start_at)
bookings_valid_interval(row) == row.endAt > row.startAt

\* a store without the exclusion constraint
no_exclusion_constraint(rows, row) == TRUE

\* EXCLUDE USING gist (table_id WITH =, tstzrange(start_at, end_at, '[)') WITH &&)
\* WHERE (status <> 'CANCELLED'): TRUE when the store admits the new row
bookings_no_overlap_per_table(rows, row) ==
  \/ row.status = "CANCELLED"
  \/ \A i \in 1..Len(rows) :
        \/ rows[i].status = "CANCELLED"
        \/ rows[i].tableId # row.tableId
        \/ ~(rows[i].startAt < row.endAt /\ row.startAt < rows[i].endAt)

(* ------------------------------ call records --------------------------- *)
Calls == 1..NumCalls

\* a request handler with no request in flight
IdleCall ==
  [op |-> "none", pc |-> "idle", userId |-> "", memberId |-> 0, tableId |-> 0,
   startAt |-> 0, endAt |-> 0, peopleCount |-> 0, agg |-> <<>>,
   snapStock |-> <<>>, stale |-> {}, bookingId |-> 0, matchedTokenId |-> 0]

\* what a step answers to its caller: nothing, or the end of call c
\* (decrements: the stock decrements a create's transaction had applied when
\* it ended; value: what a read returns)
NoResponse ==
  [call |-> 0, op |-> "none", kind |-> "", why |-> "", bookingId |-> 0, decrements |-> 0,
   value |-> {}]
Response(c, op, kind, why, bookingId) ==
  [call |-> c, op |-> op, kind |-> kind, why |-> why, bookingId |-> bookingId,
   decrements |-> 0, value |-> {}]

\* a store whose transactions never fail on a concurrent update
MarkNothingStale(cs, gs) == cs

\* a committed write to the rows of games gs invalidates them for every
\* Serializable transaction whose snapshot is older
MarkStale(cs, gs) ==
  [c \in Calls |->
     IF cs[c].pc = "txWrite"
     THEN [cs[c] EXCEPT !.stale = @ \cup (gs \cap AggKeys(cs[c].agg))]
     ELSE cs[c]]

(* ------------------------------ create --------------------------------- *)
\* create, lines 98-127: date shape, slot, opening hours, future; the first
\* failing check decides
dateChecks(startAt, endAt) ==
  IF startAt = NaNDate \/ endAt = NaNDate THEN Throw("BadRequest", "dates")
  ELSE IF ~isValidSlotDuration(startAt, endAt, bookingSlotMinutes)
  THEN Throw("BadRequest", "slot")
  ELSE IF ~isWithinOpeningHours(startAt, endAt, bookingOpenHour, bookingCloseHour)
  THEN Throw("BadRequest", "hours")
  ELSE IF startAt <= now THEN Throw("BadRequest", "past")
  ELSE Ok(0)

\* create, lines 131-142: table lookup, capacity
tableChecks(tableId, peopleCount) ==
  IF tableId \notin DOMAIN tables \/ ~tables[tableId].isActive
  THEN Throw("NotFound", "table")
  ELSE IF peopleCount > tables[tableId].capacity
  THEN Throw("BadRequest", "capacity")
  ELSE Ok(tableId)

\* the create requests in flight
CreatesInFlight == {d \in Calls : calls[d].op = "create"}

\* create ends before its first read of the bookings
CreateRejected(c, r) ==
  /\ calls' = calls
  /\ response' = Response(c, "create", r.kind, r.why, 0)

\* a create request arrives, lines 98-142; its inputs are drawn from the
\* given sets, each where the code first reads it
CreateStart(c, users, memberIds, tableIds, windows, peopleCounts) ==
  /\ calls[c].pc = "idle"
  /\ Len(bookings) + Cardinality(CreatesInFlight) < MaxBookings
  /\ \E w \in windows :
       LET d == dateChecks(w[1], w[2])
       IN IF ~d.ok THEN CreateRejected(c, d)
          ELSE \E userId \in users, requestedMemberId \in memberIds :
            LET m == resolveMemberId(userId, requestedMemberId)
            IN IF ~m.ok THEN CreateRejected(c, m)
               ELSE \E tableId \in tableIds, peopleCount \in peopleCounts :
                 LET t == tableChecks(tableId, peopleCount)
                 IN IF ~t.ok THEN CreateRejected(c, t)
                    ELSE /\ calls' = [calls EXCEPT ![c] =
                              [IdleCall EXCEPT !.op = "create", !.pc = "quota",
                                  !.userId = userId, !.memberId = m.value,
                                  !.tableId = tableId, !.startAt = w[1], !.endAt = w[2],
                                  !.peopleCount = peopleCount]]
                         /\ response' = NoResponse
  /\ UNCHANGED <<refreshTokens, now, tables, games, bookings, bookingGames, gameUpd>>

\* lines 144-156
CreateQuota(c) ==
  /\ calls[c].pc = "quota"
  /\ IF activeFutureBookings(calls[c].memberId) >= maxFutureActiveBookings
     THEN /\ calls' = [calls EXCEPT ![c] = IdleCall]
          /\ response' = Response(c, "create", "BadRequest", "quota", 0)
     ELSE /\ calls' = [calls EXCEPT ![c].pc = "games"]
          /\ response' = NoResponse
  /\ UNCHANGED <<refreshTokens, now, tables, games, bookings, bookingGames, gameUpd>>

\* a pre-check that leaves the stock comparison to the transaction
gamesCheckStockUnchecked(agg) ==
  LET found == {g \in DOMAIN games : g \in AggKeys(agg) /\ games[g].isActive}
  IN IF Len(agg) = 0 THEN Ok(0)
     ELSE IF Cardinality(found) # Len(agg) THEN Throw("BadRequest", "gameUnavailable")
     ELSE Ok(0)

\* lines 167-185: every selected game exists and is active, and has the stock
gamesCheck(agg) ==
  LET found == {g \in DOMAIN games : g \in AggKeys(agg) /\ games[g].isActive}
  IN IF Len(agg) = 0 THEN Ok(0)
     ELSE IF Cardinality(found) # Len(agg) THEN Throw("BadRequest", "gameUnavailable")
     ELSE IF \E i \in 1..Len(agg) : agg[i].quantity > games[agg[i].gameId].stockAvailable
     THEN Throw("BadRequest", "stock")
     ELSE Ok(0)

\* lines 158-185; dto.gameSelections is read here for the first time
CreateGames(c, selectionInputs) ==
  /\ calls[c].pc = "games"
  /\ \E selections \in selectionInputs :
       LET agg == aggregateSelection(selections)
           r == gamesCheck(agg)
       IN IF r.ok
          THEN /\ calls' = [calls EXCEPT ![c].pc = "txBegin", ![c].agg = agg]
               /\ response' = NoResponse
          ELSE /\ calls' = [calls EXCEPT ![c] = IdleCall]
               /\ response' = Response(c, "create", r.kind, r.why, 0)
  /\ UNCHANGED <<refreshTokens, now, tables, games, bookings, bookingGames, gameUpd>>

\* lines 187-202: the transaction's first statement fixes its snapshot
CreateTxBegin(c) ==
  /\ calls[c].pc = "txBegin"
  /\ IF overlapCount(calls[c].tableId, calls[c].startAt, calls[c].endAt) > 0
     THEN /\ calls' = [calls EXCEPT ![c] = IdleCall]
          /\ response' = Response(c, "create", "Conflict", "overlap", 0)
     ELSE /\ calls' = [calls EXCEPT ![c].pc = "txWrite",
                 ![c].snapStock = [g \in AggKeys(calls[c].agg) |-> games[g].stockAvailable]]
          /\ response' = NoResponse
  /\ UNCHANGED <<refreshTokens, now, tables, games, bookings, bookingGames, gameUpd>>

\* lines 217-241 on the transaction's private copy gm of the game rows:
\* updateMany({id, stockAvailable >= quantity}, decrement) matches on the
\* snapshot; no match throws the ConflictException; a matched row that was
\* rewritten after the snapshot cannot be updated (serialization failure)
RECURSIVE decrementLoop(_, _, _)
decrementLoop(call, i, gm) ==
  IF i > Len(call.agg) THEN [kind |-> "OK", why |-> "ok", games |-> gm, applied |-> i - 1]
  ELSE LET gameId == call.agg[i].gameId
           quantity == call.agg[i].quantity
       IN IF ~(call.snapStock[gameId] >= quantity)
          THEN [kind |-> "Conflict", why |-> "stockChanged", games |-> gm, applied |-> i - 1]
          ELSE IF gameId \in call.stale
          THEN [kind |-> "DbError", why |-> "serialization", games |-> gm, applied |-> i - 1]
          ELSE decrementLoop(call, i + 1,
                 [gm EXCEPT ![gameId].stockAvailable = @ - quantity])

\* an insert that leaves the status to the column default
createdRowPending(call) ==
  [memberId |-> call.memberId, tableId |-> call.tableId, startAt |-> call.startAt,
   endAt |-> call.endAt, peopleCount |-> call.peopleCount, status |-> "PENDING"]

\* lines 204-215: the row tx.booking.create inserts (notes, createdBy and
\* createdAt are stored and never read by the rules)
createdRow(call) ==
  [memberId |-> call.memberId, tableId |-> call.tableId, startAt |-> call.startAt,
   endAt |-> call.endAt, peopleCount |-> call.peopleCount, status |-> "CONFIRMED"]

\* lines 204-241: insert, then the decrement loop
createTxOutcome(call) ==
  IF ~bookings_valid_interval(createdRow(call))
     \/ ~bookings_no_overlap_per_table(bookings, createdRow(call))
  THEN [kind |-> "DbError", why |-> "constraint", games |-> games, applied |-> 0]
  ELSE decrementLoop(call, 1, games)

\* $transaction: the store keeps the writes of a transaction that returns
\* and unwinds those of one that throws
\* a store that keeps the decrements of a transaction that throws
txGamesKept(outcome) == outcome.games
txGames(outcome) == IF outcome.kind = "OK" THEN outcome.games ELSE games
txBookings(outcome, row) == IF outcome.kind = "OK" THEN Append(bookings, row) ELSE bookings
txBookingGames(outcome, call) ==
  IF outcome.kind = "OK"
  THEN bookingGames \cup
         {[bookingId |-> Len(bookings) + 1, boardGameId |-> call.agg[i].gameId,
           quantity |-> call.agg[i].quantity] : i \in 1..Len(call.agg)}
  ELSE bookingGames

\* the audit_logs insert succeeds or fails
AuditOutcomes == {"ok", "fail"}
\* the audit store is up
AuditUp == {"ok"}

\* await auditService.record(...) after the transaction, then return: a
\* failed insert throws out of the handler
audited(r, audit) ==
  IF r.kind = "OK" /\ audit = "fail"
  THEN [r EXCEPT !.kind = "DbError", !.why = "audit"]
  ELSE r

\* a create that starts its transaction again when it aborts
CreateTxWriteRetrying(c, audits) ==
  /\ calls[c].pc = "txWrite"
  /\ LET call == calls[c]
         outcome == createTxOutcome(call)
         done == [calls EXCEPT ![c] = IdleCall]
     IN /\ games' = txGames(outcome)
        /\ bookings' = txBookings(outcome, createdRow(call))
        /\ bookingGames' = txBookingGames(outcome, call)
        /\ IF outcome.kind = "OK"
           THEN /\ calls' = MarkStale(done, AggKeys(call.agg))
                /\ \E audit \in audits :
                     response' = audited([Response(c, "create", outcome.kind, outcome.why,
                                             Len(bookings) + 1)
                                           EXCEPT !.decrements = outcome.applied], audit)
           ELSE /\ calls' = [calls EXCEPT ![c].pc = "txBegin", ![c].stale = {}]
                /\ response' = NoResponse
  /\ UNCHANGED <<refreshTokens, now, tables, gameUpd>>

\* lines 204-283: insert, decrements and holds commit or abort together, then
\* the audit record is written and the handler answers
CreateTxWrite(c, audits) ==
  /\ calls[c].pc = "txWrite"
  /\ LET call == calls[c]
         outcome == createTxOutcome(call)
         done == [calls EXCEPT ![c] = IdleCall]
     IN /\ games' = txGames(outcome)
        /\ bookings' = txBookings(outcome, createdRow(call))
        /\ bookingGames' = txBookingGames(outcome, call)
        /\ calls' = IF outcome.kind = "OK" THEN MarkStale(done, AggKeys(call.agg))
                    ELSE done
        /\ \E audit \in audits :
             response' = audited([Response(c, "create", outcome.kind, outcome.why,
                                     IF outcome.kind = "OK" THEN Len(bookings) + 1 ELSE 0)
                                   EXCEPT !.decrements = outcome.applied], audit)
  /\ UNCHANGED <<refreshTokens, now, tables, gameUpd>>

(* ------------------------------ cancel --------------------------------- *)
\* a cancel that closes at the deadline instant itself
cancelChecksClosedAtDeadline(userId, bookingId) ==
  IF bookingId \notin 1..Len(bookings) THEN Throw("NotFound", "booking")
  ELSE LET booking == bookings[bookingId]
           own == {m \in Members : m.userId = userId}
       IN IF role(userId) = "MEMBER"
             /\ (own = {} \/ \A m \in own : booking.memberId # m.id)
          THEN Throw("Forbidden", "notOwner")
          ELSE IF booking.status = "CANCELLED"
          THEN Throw("BadRequest", "alreadyCancelled")
          ELSE IF now >= booking.startAt - cancellationHours * HOUR_MS
          THEN Throw("BadRequest", "cutoff")
          ELSE Ok(bookingId)

\* a cancel without the ownership check
cancelChecksAnyCaller(userId, bookingId) ==
  IF bookingId \notin 1..Len(bookings) THEN Throw("NotFound", "booking")
  ELSE LET booking == bookings[bookingId]
       IN IF booking.status = "CANCELLED"
          THEN Throw("BadRequest", "alreadyCancelled")
          ELSE IF now > booking.startAt - cancellationHours * HOUR_MS
          THEN Throw("BadRequest", "cutoff")
          ELSE Ok(bookingId)

\* a cancel that looks at the status before the owner
cancelChecksStatusFirst(userId, bookingId) ==
  IF bookingId \notin 1..Len(bookings) THEN Throw("NotFound", "booking")
  ELSE LET booking == bookings[bookingId]
           own == {m \in Members : m.userId = userId}
       IN IF booking.status = "CANCELLED"
          THEN Throw("BadRequest", "alreadyCancelled")
          ELSE IF role(userId) = "MEMBER"
                  /\ (own = {} \/ \A m \in own : booking.memberId # m.id)
          THEN Throw("Forbidden", "notOwner")
          ELSE IF now > booking.startAt - cancellationHours * HOUR_MS
          THEN Throw("BadRequest", "cutoff")
          ELSE Ok(bookingId)

\* cancel, lines 293-328, on the booking row as findUnique returns it
cancelChecks(userId, bookingId) ==
  IF bookingId \notin 1..Len(bookings) THEN Throw("NotFound", "booking")
  ELSE LET booking == bookings[bookingId]
           own == {m \in Members : m.userId = userId}
       IN IF role(userId) = "MEMBER"
             /\ (own = {} \/ \A m \in own : booking.memberId # m.id)
          THEN Throw("Forbidden", "notOwner")
          ELSE IF booking.status = "CANCELLED"
          THEN Throw("BadRequest", "alreadyCancelled")
          ELSE IF now > booking.startAt - cancellationHours * HOUR_MS
          THEN Throw("BadRequest", "cutoff")
          ELSE Ok(bookingId)

\* a cancel request arrives and reads the booking, outside any transaction
CancelStart(c, users, bookingIds) ==
  /\ calls[c].pc = "idle"
  /\ \E userId \in users, bookingId \in bookingIds :
       LET r == cancelChecks(userId, bookingId)
       IN IF r.ok
          THEN /\ calls' = [calls EXCEPT ![c] =
                    [IdleCall EXCEPT !.op = "cancel", !.pc = "cancelTx",
                                     !.userId = userId, !.bookingId = bookingId]]
               /\ response' = NoResponse
          ELSE /\ calls' = calls
               /\ response' = Response(c, "cancel", r.kind, r.why, bookingId)
  /\ UNCHANGED <<refreshTokens, now, tables, games, bookings, bookingGames, gameUpd>>

\* booking.games of the row read at line 293 (holds are never removed)
bookingGamesOf(bookingId) == {h \in bookingGames : h.bookingId = bookingId}

\* a cancel that returns one copy of each held game
cancelGamesByOne(bookingId) ==
  [g \in DOMAIN games |->
     IF \E h \in bookingGamesOf(bookingId) : h.boardGameId = g
     THEN [games[g] EXCEPT !.stockAvailable = @ + 1]
     ELSE games[g]]

\* lines 338-345: boardGame.update({id}, stockAvailable: increment quantity)
cancelGames(bookingId) ==
  [g \in DOMAIN games |->
     IF \E h \in bookingGamesOf(bookingId) : h.boardGameId = g
     THEN LET h == CHOOSE x \in bookingGamesOf(bookingId) : x.boardGameId = g
          IN [games[g] EXCEPT !.stockAvailable = @ + h.quantity]
     ELSE games[g]]

\* lines 330-355: booking.update({id}, status CANCELLED), then the increments;
\* then the audit record
CancelTx(c, audits) ==
  /\ calls[c].pc = "cancelTx"
  /\ LET bookingId == calls[c].bookingId
     IN /\ bookings' = [bookings EXCEPT ![bookingId].status = "CANCELLED"]
        /\ games' = cancelGames(bookingId)
        /\ calls' = MarkStale([calls EXCEPT ![c] = IdleCall],
                              {h.boardGameId : h \in bookingGamesOf(bookingId)})
        /\ \E audit \in audits :
             response' = audited(Response(c, "cancel", "OK", "ok", bookingId), audit)
  /\ UNCHANGED <<refreshTokens, now, tables, bookingGames, gameUpd>>

(* ------------------------------ catalog -------------------------------- *)
NoUpdate == [id |-> 0, stockTotal |-> None, stockAvailable |-> None]

\* GamesService.update, lines 89-104: the check on the row as read
updateChecks(id, dtoTotal, dtoAvailable) ==
  IF id \notin DOMAIN games THEN Throw("NotFound", "game")
  ELSE LET stockTotal == IF dtoTotal # None THEN dtoTotal ELSE games[id].stockTotal
           stockAvailable == IF dtoAvailable # None THEN dtoAvailable
                             ELSE games[id].stockAvailable
       IN IF stockAvailable > stockTotal THEN Throw("BadRequest", "stockAvailable")
          ELSE Ok(id)

\* an admin's PATCH /games/:id arrives; a rejected one changes nothing
GameUpdateRead(ids, totals, availables) ==
  /\ gameUpd = NoUpdate
  /\ \E id \in ids, dtoTotal \in totals, dtoAvailable \in availables :
       /\ updateChecks(id, dtoTotal, dtoAvailable).ok
       /\ gameUpd' = [id |-> id, stockTotal |-> dtoTotal, stockAvailable |-> dtoAvailable]
  /\ response' = NoResponse
  /\ UNCHANGED <<refreshTokens, now, tables, games, bookings, bookingGames, calls>>

\* lines 106-113: boardGame.update({id}, data: dto)
GameUpdateWrite ==
  /\ gameUpd # NoUpdate
  /\ games' = [games EXCEPT ![gameUpd.id] =
       [@ EXCEPT !.stockTotal = IF gameUpd.stockTotal # None THEN gameUpd.stockTotal ELSE @,
                 !.stockAvailable = IF gameUpd.stockAvailable # None
                                    THEN gameUpd.stockAvailable ELSE @]]
  /\ calls' = MarkStale(calls, {gameUpd.id})
  /\ gameUpd' = NoUpdate
  /\ response' = NoResponse
  /\ UNCHANGED <<refreshTokens, now, tables, bookings, bookingGames>>

(* ------------------------------ tables --------------------------------- *)
\* UpdateTableDto bodies: a smaller capacity, a deactivation, and the seed
\* values of table 1 again (fields left out are not in the record)
TableDtos == {[capacity |-> 2], [isActive |-> FALSE], [capacity |-> 4, isActive |-> TRUE]}

\* TablesService.update, lines 78-100: tableEntity.update({id}, data: dto)
TableUpdate(ids, dtos) ==
  /\ \E id \in ids, dto \in dtos :
       IF id \notin DOMAIN tables
       THEN /\ tables' = tables
            /\ response' = Response(0, "tableUpdate", "NotFound", "table", 0)
       ELSE /\ tables' = [tables EXCEPT ![id] =
                 [capacity |-> IF "capacity" \in DOMAIN dto THEN dto.capacity ELSE @.capacity,
                  isActive |-> IF "isActive" \in DOMAIN dto THEN dto.isActive ELSE @.isActive]]
            /\ response' = Response(0, "tableUpdate", "OK", "ok", 0)
  /\ UNCHANGED <<now, games, bookings, bookingGames, refreshTokens, calls, gameUpd>>

(* ------------------------------ sessions ------------------------------- *)
\* refresh_tokens after u1 and u2 logged in at the first instant; a token is
\* the number of the row that was stored when it was signed
SeedTokens ==
  <<[userId |-> "u1", token |-> 1, revoked |-> FALSE,
     expiresAt |-> ClockValues[1] + refreshExpiresDays * DAY_MS],
    [userId |-> "u2", token |-> 2, revoked |-> FALSE,
     expiresAt |-> ClockValues[1] + refreshExpiresDays * DAY_MS]>>

\* the refresh cookie of a request: a string that is no signed token (0), or
\* a token value
TokenInputs == 0..MaxTokens

\* refresh, lines 143-185: jwt verification, the user, then the match of the
\* cookie against the user's tokens that are not revoked and not expired
refreshChecks(refreshToken) ==
  IF refreshToken \notin 1..Len(refreshTokens) THEN Throw("Unauthorized", "invalidToken")
  ELSE LET sub == refreshTokens[refreshToken].userId
           activeTokens == {i \in 1..Len(refreshTokens) :
                              /\ refreshTokens[i].userId = sub
                              /\ ~refreshTokens[i].revoked
                              /\ refreshTokens[i].expiresAt > now}
           matched == {i \in activeTokens : refreshTokens[i].token = refreshToken}
       IN IF sub \notin Users THEN Throw("Unauthorized", "user")
          ELSE IF matched = {} THEN Throw("Unauthorized", "revoked")
          ELSE Ok(CHOOSE i \in matched : TRUE)

\* the refresh requests in flight
RefreshesInFlight == {d \in Calls : calls[d].op = "refresh"}

\* a refresh request arrives and reads the user's active tokens
RefreshStart(c, tokens) ==
  /\ calls[c].pc = "idle"
  /\ Len(refreshTokens) + Cardinality(RefreshesInFlight) < MaxTokens
  /\ \E refreshToken \in tokens :
       LET r == refreshChecks(refreshToken)
       IN IF r.ok
          THEN /\ calls' = [calls EXCEPT ![c] =
                    [IdleCall EXCEPT !.op = "refresh", !.pc = "revoke",
                                     !.userId = refreshTokens[r.value].userId,
                                     !.matchedTokenId = r.value]]
               /\ response' = NoResponse
          ELSE /\ calls' = calls
               /\ response' = [Response(c, "refresh", r.kind, r.why, 0)
                                 EXCEPT !.value = refreshToken]
  /\ UNCHANGED <<now, tables, games, bookings, bookingGames, refreshTokens, gameUpd>>

\* lines 187-190: refreshToken.update({id: matchedTokenId}, revokedAt: now)
RefreshRevoke(c) ==
  /\ calls[c].pc = "revoke"
  /\ refreshTokens' = [refreshTokens EXCEPT ![calls[c].matchedTokenId].revoked = TRUE]
  /\ calls' = [calls EXCEPT ![c].pc = "issue"]
  /\ response' = NoResponse
  /\ UNCHANGED <<now, tables, games, bookings, bookingGames, gameUpd>>

\* lines 192-194 and loginResponse, lines 243-289: the audit record, then a
\* new token is signed and stored, and the handler answers with it
RefreshIssue(c, audits) ==
  /\ calls[c].pc = "issue"
  /\ \E audit \in audits :
       IF audit = "fail"
       THEN /\ refreshTokens' = refreshTokens
            /\ response' = Response(c, "refresh", "DbError", "audit", 0)
       ELSE /\ refreshTokens' = Append(refreshTokens,
                   [userId |-> calls[c].userId, token |-> Len(refreshTokens) + 1,
                    revoked |-> FALSE, expiresAt |-> now + refreshExpiresDays * DAY_MS])
            /\ response' = [Response(c, "refresh", "OK", "ok", 0)
                              EXCEPT !.value = refreshTokens[calls[c].matchedTokenId].token]
  /\ calls' = [calls EXCEPT ![c] = IdleCall]
  /\ UNCHANGED <<now, tables, games, bookings, bookingGames, gameUpd>>

(* ------------------------------ time ----------------------------------- *)
Tick ==
  /\ \E i \in 1..(Len(ClockValues) - 1) : now = ClockValues[i] /\ now' = ClockValues[i + 1]
  /\ response' = NoResponse
  /\ UNCHANGED <<refreshTokens, tables, games, bookings, bookingGames, calls, gameUpd>>

(* ------------------------------ specifications ------------------------- *)
\* the store after the migrations and a seed of two tables and two games
Init ==
  /\ now = ClockValues[1]
  /\ tables = [t \in TableIds |-> [capacity |-> IF t = 1 THEN 4 ELSE 6, isActive |-> TRUE]]
  /\ games = [g \in GameIds |->
                [stockTotal |-> IF g = 1 THEN MaxStock ELSE 1,
                 stockAvailable |-> IF g = 1 THEN MaxStock ELSE 1, isActive |-> TRUE]]
  /\ bookings = <<>>
  /\ bookingGames = {}
  /\ calls = [c \in Calls |-> IdleCall]
  /\ gameUpd = NoUpdate
  /\ response = NoResponse
  /\ refreshTokens = SeedTokens

\* tables, slots, owners and time: requests without game selections
Next ==
  \/ \E c \in Calls : CreateStart(c, Users, MemberIdInputs, TableIdInputs, Windows, PeopleCounts)
  \/ \E c \in Calls : CreateQuota(c)
  \/ \E c \in Calls : CreateGames(c, {<<>>})
  \/ \E c \in Calls : CreateTxBegin(c)
  \/ \E c \in Calls : CreateTxWrite(c, AuditUp)
  \/ \E c \in Calls : CancelStart(c, Users, 1..MaxBookings)
  \/ \E c \in Calls : CancelTx(c, AuditUp)
  \/ Tick

Spec == Init /\ [][Next]_vars

\* games and stock: staff requests for one evening slot, with selections,
\* while an admin edits the catalog
StockWindows == {<<At(1, 18, 0), At(1, 19, 0)>>, <<At(1, 18, 0), At(1, 19, 30)>>}
StockInputs == 1..MaxStock

NextStock ==
  \/ \E c \in Calls : CreateStart(c, {"staff"}, MemberIds, TableIds, StockWindows, {4})
  \/ \E c \in Calls : CreateQuota(c)
  \/ \E c \in Calls : CreateGames(c, Selections)
  \/ \E c \in Calls : CreateTxBegin(c)
  \/ \E c \in Calls : CreateTxWrite(c, AuditUp)
  \/ \E c \in Calls : CancelStart(c, {"staff"}, 1..MaxBookings)
  \/ \E c \in Calls : CancelTx(c, AuditUp)

SpecStock == Init /\ [][NextStock]_vars

\* the catalog: an admin edits the stock of game 1 while staff book and
\* cancel table 1 with at most one copy of it
CatalogSelections == {<<>>, <<[gameId |-> 1, quantity |-> 1]>>}

NextCatalog ==
  \/ \E c \in Calls : CreateStart(c, {"staff"}, MemberIds, {1}, StockWindows, {4})
  \/ \E c \in Calls : CreateQuota(c)
  \/ \E c \in Calls : CreateGames(c, CatalogSelections)
  \/ \E c \in Calls : CreateTxBegin(c)
  \/ \E c \in Calls : CreateTxWrite(c, AuditUp)
  \/ \E c \in Calls : CancelStart(c, {"staff"}, 1..MaxBookings)
  \/ \E c \in Calls : CancelTx(c, AuditUp)
  \/ GameUpdateRead({1}, {None} \cup StockInputs, {None} \cup StockInputs)
  \/ GameUpdateWrite

SpecCatalog == Init /\ [][NextCatalog]_vars

\* the audit store may fail: staff book and cancel table 1 with at most one
\* copy of game 1
NextAudit ==
  \/ \E c \in Calls : CreateStart(c, {"staff"}, MemberIds, {1}, StockWindows, {4})
  \/ \E c \in Calls : CreateQuota(c)
  \/ \E c \in Calls : CreateGames(c, CatalogSelections)
  \/ \E c \in Calls : CreateTxBegin(c)
  \/ \E c \in Calls : CreateTxWrite(c, AuditOutcomes)
  \/ \E c \in Calls : CancelStart(c, {"staff"}, 1..MaxBookings)
  \/ \E c \in Calls : CancelTx(c, AuditOutcomes)

SpecAudit == Init /\ [][NextAudit]_vars

\* selections that name game 1, or an id no game has
UnknownGameSelections ==
  {<<>>, <<[gameId |-> 1, quantity |-> 1]>>, <<[gameId |-> 9, quantity |-> 1]>>,
   <<[gameId |-> 1, quantity |-> 1], [gameId |-> 9, quantity |-> 1]>>}

\* staff book and cancel table 1 with selections that may name an unknown game
NextGames ==
  \/ \E c \in Calls : CreateStart(c, {"staff"}, MemberIds, {1}, StockWindows, {4})
  \/ \E c \in Calls : CreateQuota(c)
  \/ \E c \in Calls : CreateGames(c, UnknownGameSelections)
  \/ \E c \in Calls : CreateTxBegin(c)
  \/ \E c \in Calls : CreateTxWrite(c, AuditUp)
  \/ \E c \in Calls : CancelStart(c, {"staff"}, 1..MaxBookings)
  \/ \E c \in Calls : CancelTx(c, AuditUp)

SpecGames == Init /\ [][NextGames]_vars

\* the store answers every statement a call is waiting for
Progress(c) ==
  \/ CreateQuota(c)
  \/ CreateGames(c, CatalogSelections)
  \/ CreateTxBegin(c)
  \/ CreateTxWrite(c, AuditOutcomes)
  \/ CancelTx(c, AuditOutcomes)

SpecLive == Init /\ [][NextAudit]_vars /\ \A c \in Calls : WF_vars(Progress(c))

\* sessions: refresh requests with any cookie
NextAuth ==
  \/ \E c \in Calls : RefreshStart(c, TokenInputs)
  \/ \E c \in Calls : RefreshRevoke(c)
  \/ \E c \in Calls : RefreshIssue(c, AuditUp)

SpecAuth == Init /\ [][NextAuth]_vars

\* an admin edits table 1 while staff book the tables for four people
NextTables ==
  \/ \E c \in Calls : CreateStart(c, {"staff"}, MemberIds, TableIds, StockWindows, {4})
  \/ \E c \in Calls : CreateQuota(c)
  \/ \E c \in Calls : CreateGames(c, {<<>>})
  \/ \E c \in Calls : CreateTxBegin(c)
  \/ \E c \in Calls : CreateTxWrite(c, AuditUp)
  \/ TableUpdate({1, 9}, TableDtos)

SpecTables == Init /\ [][NextTables]_vars

(* ------------------------------ reads ---------------------------------- *)
\* TablesService.memberAvailability with a window: the active tables that
\* no PENDING or CONFIRMED booking overlaps
availableTables(startAt, endAt) ==
  LET overlaps == {i \in 1..Len(bookings) :
                     /\ bookings[i].status \in {"PENDING", "CONFIRMED"}
                     /\ bookings[i].startAt < endAt
                     /\ bookings[i].endAt > startAt}
      busyTableIds == {bookings[i].tableId : i \in overlaps}
  IN {t \in DOMAIN tables : tables[t].isActive /\ t \notin busyTableIds}

\* memberAvailability: without a window every active table is available
memberAvailability(startAt, endAt) ==
  IF startAt = None \/ endAt = None
  THEN Ok({t \in DOMAIN tables : tables[t].isActive})
  ELSE IF startAt = NaNDate \/ endAt = NaNDate
  THEN Throw("BadRequest", "dates")
  ELSE Ok(availableTables(startAt, endAt))

\* GET /tables by a member
TablesList(windows) ==
  /\ \E w \in windows :
       LET r == memberAvailability(w[1], w[2])
       IN response' = [Response(0, "tables", r.kind, r.why, 0) EXCEPT !.value = r.value]
  /\ UNCHANGED <<refreshTokens, now, tables, games, bookings, bookingGames, calls, gameUpd>>

\* the values of the BookingStatus enum
BookingStatus == {"PENDING", "CONFIRMED", "CANCELLED", "COMPLETED"}

\* the windows of stored bookings: the slots of day 1, and a reversed one
StoredWindows == {<<At(1, 18, 0), At(1, 19, 30)>>, <<At(1, 18, 45), At(1, 20, 15)>>,
                  <<At(1, 19, 30), At(1, 21, 0)>>, <<At(1, 19, 30), At(1, 18, 0)>>}

\* booking rows of any status
StoredRows ==
  {[memberId |-> m, tableId |-> t, startAt |-> w[1], endAt |-> w[2],
    peopleCount |-> 4, status |-> st] :
     m \in MemberIds, t \in TableIds, w \in StoredWindows, st \in BookingStatus}

RECURSIVE admitted(_)
admitted(rows) ==
  \/ rows = <<>>
  \/ /\ admitted(SubSeq(rows, 1, Len(rows) - 1))
     /\ bookings_valid_interval(rows[Len(rows)])
     /\ bookings_no_overlap_per_table(SubSeq(rows, 1, Len(rows) - 1), rows[Len(rows)])

\* the bookings tables the constraints admit
StoredBookings == {rows \in SeqsUpTo(StoredRows, MaxBookings) : admitted(rows)}

\* a store with any admitted bookings in it
InitStored ==
  /\ now = ClockValues[1]
  /\ tables = [t \in TableIds |-> [capacity |-> IF t = 1 THEN 4 ELSE 6, isActive |-> TRUE]]
  /\ games = [g \in GameIds |->
                [stockTotal |-> IF g = 1 THEN MaxStock ELSE 1,
                 stockAvailable |-> IF g = 1 THEN MaxStock ELSE 1, isActive |-> TRUE]]
  /\ bookings \in StoredBookings
  /\ bookingGames = {}
  /\ calls = [c \in Calls |-> IdleCall]
  /\ gameUpd = NoUpdate
  /\ response = NoResponse
  /\ refreshTokens = SeedTokens

\* query windows: none, unparsable, and the slots of day 1
QueryWindows == {<<None, None>>, <<NaNDate, At(1, 19, 30)>>,
                 <<At(1, 18, 0), At(1, 19, 30)>>, <<At(1, 18, 45), At(1, 20, 15)>>,
                 <<At(1, 19, 30), At(1, 21, 0)>>}

NextRead ==
  \/ TablesList(QueryWindows)

SpecRead == InitStored /\ [][NextRead]_vars

(* ------------------------------ stored reservations ------------------- *)
\* booking rows of table 1 of any status, in two slots of day 1
HeldRows ==
  {[memberId |-> m, tableId |-> 1, startAt |-> w[1], endAt |-> w[2],
    peopleCount |-> 4, status |-> st] :
     m \in MemberIds,
     w \in {<<At(1, 18, 0), At(1, 19, 30)>>, <<At(1, 19, 30), At(1, 21, 0)>>},
     st \in BookingStatus}

HeldBookings == {rows \in SeqsUpTo(HeldRows, MaxBookings) : admitted(rows)}

\* booking_games rows: each reservation holds nothing or one copy of game 1
HeldGames(rows) ==
  {{[bookingId |-> b, boardGameId |-> 1, quantity |-> 1] : b \in bs} :
     bs \in SUBSET (1..Len(rows))}

\* a store with reservations of any status and their holds in it; the copies
\* held by reservations that are not CANCELLED are out of stockAvailable
InitHeld ==
  /\ now = ClockValues[1]
  /\ tables = [t \in TableIds |-> [capacity |-> IF t = 1 THEN 4 ELSE 6, isActive |-> TRUE]]
  /\ bookings \in HeldBookings
  /\ bookingGames \in HeldGames(bookings)
  /\ games = [g \in GameIds |->
                [stockTotal |-> IF g = 1 THEN MaxStock ELSE 1,
                 stockAvailable |->
                   IF g = 1
                   THEN MaxStock - Cardinality({h \in bookingGames :
                                                  bookings[h.bookingId].status # "CANCELLED"})
                   ELSE 1,
                 isActive |-> TRUE]]
  /\ calls = [c \in Calls |-> IdleCall]
  /\ gameUpd = NoUpdate
  /\ response = NoResponse
  /\ refreshTokens = SeedTokens

\* cancels by staff and by a member, on the stored reservations
NextHeld ==
  \/ \E c \in Calls : CancelStart(c, {"staff", "u1"}, 1..MaxBookings)
  \/ \E c \in Calls : CancelTx(c, AuditUp)
  \/ Tick

SpecHeld == InitHeld /\ [][NextHeld]_vars

(* ------------------------------ booking list --------------------------- *)
\* a filter of BookingsQueryDto left out
AnyStatus == ""

\* a list that applies the owner filter of the query for every caller
bookingsListAsAsked(rows, userId, query) ==
  {i \in 1..Len(rows) :
     /\ query.status = AnyStatus \/ rows[i].status = query.status
     /\ query.tableId = None \/ rows[i].tableId = query.tableId
     /\ query.memberId = None \/ rows[i].memberId = query.memberId
     /\ query.from = None \/ rows[i].startAt >= query.from
     /\ query.to = None \/ rows[i].startAt <= query.to}

\* BookingsService.list on the bookings table rows: the ids findMany returns
\* (ordered by startAt)
bookingsList(rows, userId, query) ==
  {i \in 1..Len(rows) :
     /\ query.status = AnyStatus \/ rows[i].status = query.status
     /\ query.tableId = None \/ rows[i].tableId = query.tableId
     /\ IF role(userId) = "MEMBER"
        THEN \E m \in Members : m.id = rows[i].memberId /\ m.userId = userId
        ELSE query.memberId = None \/ rows[i].memberId = query.memberId
     /\ query.from = None \/ rows[i].startAt >= query.from
     /\ query.to = None \/ rows[i].startAt <= query.to}

\* GET /bookings
BookingsList(users, queries) ==
  /\ \E userId \in users, query \in queries :
       response' = [Response(0, "list", "OK", "ok", 0) EXCEPT
                      !.value = [userId |-> userId, query |-> query,
                                 ids |-> bookingsList(bookings, userId, query)]]
  /\ UNCHANGED <<refreshTokens, now, tables, games, bookings, bookingGames, calls, gameUpd>>

\* the filters of a list request
Queries ==
  [status : {AnyStatus, "CANCELLED"}, tableId : {None, 1},
   memberId : {None} \cup MemberIds, from : {None, At(1, 18, 30)},
   to : {None, At(1, 18, 30)}]

\* booking rows as create and cancel leave them
ListedRows ==
  {[memberId |-> m, tableId |-> t, startAt |-> w[1], endAt |-> w[2],
    peopleCount |-> 4, status |-> st] :
     m \in MemberIds, t \in TableIds,
     w \in {<<At(1, 18, 0), At(1, 19, 30)>>, <<At(1, 19, 30), At(1, 21, 0)>>},
     st \in {"CONFIRMED", "CANCELLED"}}

ListedBookings == {rows \in SeqsUpTo(ListedRows, MaxBookings) : admitted(rows)}

InitList ==
  /\ now = ClockValues[1]
  /\ tables = [t \in TableIds |-> [capacity |-> IF t = 1 THEN 4 ELSE 6, isActive |-> TRUE]]
  /\ games = [g \in GameIds |->
                [stockTotal |-> IF g = 1 THEN MaxStock ELSE 1,
                 stockAvailable |-> IF g = 1 THEN MaxStock ELSE 1, isActive |-> TRUE]]
  /\ bookings \in ListedBookings
  /\ bookingGames = {}
  /\ calls = [c \in Calls |-> IdleCall]
  /\ gameUpd = NoUpdate
  /\ response = NoResponse
  /\ refreshTokens = SeedTokens

NextList ==
  \/ BookingsList(Users, Queries)

SpecList == InitList /\ [][NextList]_vars

(* ------------------------------ rule evaluation ------------------------ *)
\* instants around the opening and closing hours of three days
RuleInstants ==
  {At(0, 22, 0), At(0, 23, 0), At(1, 0, 30), At(1, 14, 0), At(1, 14, 59), At(1, 15, 0),
   At(1, 15, 1), At(1, 16, 30), At(1, 21, 30), At(1, 23, 0), At(1, 23, 1), At(1, 23, 30),
   At(2, 0, 30), At(2, 15, 0), At(2, 16, 30)}

\* <<openHour, closeHour>> settings
RuleHours == {<<bookingOpenHour, bookingCloseHour>>, <<10, 16>>}

\* one evaluation of isWithinOpeningHours
OpeningHoursCheck(instants, hours) ==
  /\ \E startAt \in instants, endAt \in instants, h \in hours :
       response' = [Response(0, "hours", "OK", "ok", 0) EXCEPT
                      !.value = [startAt |-> startAt, endAt |-> endAt,
                                 openHour |-> h[1], closeHour |-> h[2],
                                 result |-> isWithinOpeningHours(startAt, endAt, h[1], h[2])]]
  /\ UNCHANGED <<refreshTokens, now, tables, games, bookings, bookingGames, calls, gameUpd>>

NextRules ==
  \/ OpeningHoursCheck(RuleInstants, RuleHours)

SpecRules == Init /\ [][NextRules]_vars

(* ------------------------------ properties ----------------------------- *)
NonCancelled == {i \in 1..Len(bookings) : bookings[i].status # "CANCELLED"}

\* the half-open intervals [startAt, endAt) of two reservations intersect
Overlap(a, b) == a.startAt < b.endAt /\ b.startAt < a.endAt

\* C1: in every reachable state any two distinct non-cancelled reservations
\* on the same table have non-overlapping half-open intervals
NoDoubleBooking ==
  \A i \in NonCancelled, j \in NonCancelled :
     (i # j /\ bookings[i].tableId = bookings[j].tableId)
        => ~Overlap(bookings[i], bookings[j])

\* two non-cancelled reservations share a table
TwoReservationsOnOneTable ==
  \E i \in NonCancelled, j \in NonCancelled :
     i # j /\ bookings[i].tableId = bookings[j].tableId

\* C2: in every reachable state every game has
\* 0 <= stockAvailable <= stockTotal
StockBound ==
  \A g \in DOMAIN games :
     0 <= games[g].stockAvailable /\ games[g].stockAvailable <= games[g].stockTotal

\* a create call that passed every pre-check ends in this step
CreateEnds(c) ==
  calls[c].pc \in {"txBegin", "txWrite"} /\ calls'[c].pc = "idle"

\* another reservation of the same table and window is committed and live
SameWindowTaken(c) ==
  \E i \in NonCancelled :
     /\ bookings[i].tableId = calls[c].tableId
     /\ bookings[i].startAt = calls[c].startAt
     /\ bookings[i].endAt = calls[c].endAt

\* C3: of two create calls for the same table and window that both passed
\* the pre-checks, the one that ends after the other committed commits
\* nothing and is answered with the typed conflict
RaceLoserToldConflict ==
  [][\A c \in Calls :
       (CreateEnds(c) /\ SameWindowTaken(c))
          => (bookings' = bookings /\ response'.kind = "Conflict")]_vars

\* all reservations are live: no cancel has committed
NoCancelYet == NonCancelled = 1..Len(bookings)

\* call c, in its transaction, asks for one copy of game g only, and saw
\* exactly one copy available
LastUnitRequest(c, g) ==
  /\ calls[c].pc = "txWrite"
  /\ calls[c].agg = <<[gameId |-> g, quantity |-> 1]>>
  /\ calls[c].snapStock[g] = 1

\* no live reservation overlaps the table and window of call c
TableFree(c) ==
  \A i \in NonCancelled :
     bookings[i].tableId = calls[c].tableId => ~Overlap(bookings[i], calls[c])

\* the hold rows of game g
HoldsOn(rows, g) == {h \in rows : h.boardGameId = g}

\* C4: concurrent create calls for free tables that each request the last
\* copy of one game: a call commits exactly when no other has taken the
\* copy, and either way the stock ends at 0 with the copy held once more
OversellRace ==
  [][\A c \in Calls, g \in GameIds :
       (LastUnitRequest(c, g) /\ calls'[c].pc = "idle" /\ NoCancelYet /\ TableFree(c))
          => /\ (response'.kind = "OK") <=> (games[g].stockAvailable = 1)
             /\ games'[g].stockAvailable = 0
             /\ Cardinality(HoldsOn(bookingGames', g)) =
                  Cardinality(HoldsOn(bookingGames, g))
                    + (IF games[g].stockAvailable = 1 THEN 1 ELSE 0)]_vars

\* the loser of such a race has just been answered: the only copy of a game
\* is held by the one reservation there is
OversellLoser ==
  /\ response.op = "create" /\ response.kind # "OK"
  /\ NoCancelYet /\ Len(bookings) = 1
  /\ \E g \in GameIds :
       /\ games[g].stockTotal = 1 /\ games[g].stockAvailable = 0
       /\ bookingGames = {[bookingId |-> 1, boardGameId |-> g, quantity |-> 1]}
  /\ response.why = "serialization"

\* the quantity reservation b holds of game g
HeldQuantity(b, g) ==
  IF \E h \in bookingGames : h.bookingId = b /\ h.boardGameId = g
  THEN (CHOOSE h \in bookingGames : h.bookingId = b /\ h.boardGameId = g).quantity
  ELSE 0

\* C5: a cancel that succeeds marks the reservation CANCELLED and raises the
\* stock of each game by exactly the held quantity; a cancel call that
\* arrives for a CANCELLED reservation is rejected and changes nothing
CancelReversible ==
  [][\A c \in Calls :
       /\ (calls[c].pc = "cancelTx" /\ calls'[c].pc = "idle")
            => /\ response'.kind = "OK"
               /\ bookings'[calls[c].bookingId].status = "CANCELLED"
               /\ \A g \in DOMAIN games :
                    games'[g].stockAvailable =
                      games[g].stockAvailable + HeldQuantity(calls[c].bookingId, g)
       /\ (calls[c].pc = "idle" /\ calls'[c].pc = "cancelTx")
            => bookings[calls'[c].bookingId].status # "CANCELLED"
       /\ (/\ calls[c].pc = "idle" /\ response'.call = c /\ response'.op = "cancel"
           /\ response'.bookingId \in 1..Len(bookings)
           /\ bookings[response'.bookingId].status = "CANCELLED")
            => /\ response'.kind # "OK"
               /\ bookings' = bookings /\ games' = games
               /\ bookingGames' = bookingGames]_vars

\* a second cancel of a reservation that held two copies was just rejected
SecondCancelRejected ==
  /\ response.op = "cancel" /\ response.why = "alreadyCancelled"
  /\ \E h \in bookingGames : h.bookingId = response.bookingId /\ h.quantity = 2

\* C6: of the cancel calls for one reservation at most one succeeds: a
\* cancel commits only on a reservation that is not CANCELLED yet
CancelsSerialize ==
  [][\A c \in Calls :
       (calls[c].pc = "cancelTx" /\ calls'[c].pc = "idle")
          => bookings[calls[c].bookingId].status # "CANCELLED"]_vars

\* the PENDING or CONFIRMED reservations of member m that start in the future
OwnedActiveFuture(m) ==
  {i \in 1..Len(bookings) :
     /\ bookings[i].memberId = m
     /\ bookings[i].status \in {"PENDING", "CONFIRMED"}
     /\ bookings[i].startAt > now}

\* C7: in every reachable state no member owns more than
\* maxFutureActiveBookings active future reservations
QuotaInvariant ==
  \A m \in MemberIds : Cardinality(OwnedActiveFuture(m)) <= maxFutureActiveBookings

\* C8: at its quota check a create is rejected when its member owns
\* maxFutureActiveBookings active future reservations, and goes on when the
\* member owns fewer (as after a cancel)
QuotaInSequence ==
  [][\A c \in Calls :
       (calls[c].pc = "quota" /\ calls'[c] # calls[c])
          => IF Cardinality(OwnedActiveFuture(calls[c].memberId)) >= maxFutureActiveBookings
             THEN /\ calls'[c].pc = "idle"
                  /\ response'.call = c /\ response'.kind = "BadRequest"
                  /\ bookings' = bookings
             ELSE calls'[c].pc = "games" /\ response'.op = "none"]_vars

\* a member's create was just accepted after the member's earlier
\* reservation was cancelled
AcceptedAfterCancel ==
  /\ Len(bookings) = 2
  /\ bookings[1].memberId = bookings[2].memberId
  /\ bookings[1].status = "CANCELLED" /\ bookings[2].status = "CONFIRMED"
  /\ bookings[1].startAt > now
  /\ response.op = "create" /\ response.kind = "OK" /\ response.bookingId = 2

\* C9: whatever the state, a request whose endAt - startAt differs from the
\* slot length fails create's first checks; every create past them and
\* every committed reservation spans exactly the slot, with endAt > startAt
FixedSlot ==
  /\ \A w \in Windows :
        (w[2] - w[1] # bookingSlotMinutes * 60 * 1000) => ~dateChecks(w[1], w[2]).ok
  /\ \A c \in Calls :
        calls[c].op = "create"
           => calls[c].endAt - calls[c].startAt = bookingSlotMinutes * 60 * 1000
  /\ \A i \in 1..Len(bookings) :
        /\ bookings[i].endAt - bookings[i].startAt = bookingSlotMinutes * 60 * 1000
        /\ bookings[i].endAt > bookings[i].startAt

\* a request of another length was just rejected while a reservation exists
WrongSlotRejected ==
  /\ response.op = "create" /\ response.why = "slot"
  /\ Len(bookings) >= 1

\* C10: a create that ends without success leaves no reservation row, no
\* hold row and no change of any game behind
CreateAllOrNothing ==
  [][(response'.op = "create" /\ response'.kind # "OK")
        => (bookings' = bookings /\ bookingGames' = bookingGames /\ games' = games)]_vars

\* a create's transaction just failed after it had applied a decrement
FailedAfterDecrement ==
  /\ response.op = "create" /\ response.kind # "OK"
  /\ response.decrements >= 1

Lifecycle ==
  [][/\ Len(bookings') >= Len(bookings)
     /\ \A i \in 1..Len(bookings) :
          \/ bookings'[i] = bookings[i]
          \/ /\ bookings[i].status # "CANCELLED"
             /\ bookings'[i] = [bookings[i] EXCEPT !.status = "CANCELLED"]
             /\ response'.op = "cancel" /\ response'.kind = "OK"
             /\ response'.bookingId = i
     /\ \A i \in (Len(bookings) + 1)..Len(bookings') :
          /\ bookings'[i].status = "CONFIRMED"
          /\ response'.op = "create" /\ response'.kind = "OK"
          /\ response'.bookingId = i]_vars

\* a reservation was just cancelled while another one is CONFIRMED
CancelledBesideConfirmed ==
  /\ response.op = "cancel" /\ response.kind = "OK"
  /\ bookings[response.bookingId].status = "CANCELLED"
  /\ \E j \in 1..Len(bookings) : bookings[j].status = "CONFIRMED"

\* C13: in every reachable state every hold row belongs to a reservation
\* that is not CANCELLED
HoldsOnlyLive ==
  \A h \in bookingGames : bookings[h.bookingId].status # "CANCELLED"

\* the last instant at which reservation b can be cancelled
Deadline(b) == bookings[b].startAt - cancellationHours * 60 * 60 * 1000

\* C14: a cancel call that arrives after the deadline of its reservation is
\* rejected, whoever calls; only calls that arrived by the deadline reach
\* the transaction; no call that arrives by the deadline is rejected for
\* the cutoff
CancelCutoff ==
  [][\A c \in Calls :
       /\ (/\ calls[c].pc = "idle" /\ response'.call = c /\ response'.op = "cancel"
           /\ response'.bookingId \in 1..Len(bookings)
           /\ now > Deadline(response'.bookingId))
            => (response'.kind # "OK" /\ bookings' = bookings)
       /\ (calls[c].pc = "idle" /\ calls'[c].pc = "cancelTx")
            => now <= Deadline(calls'[c].bookingId)
       /\ (/\ calls[c].pc = "idle" /\ response'.call = c /\ response'.op = "cancel"
           /\ response'.why = "cutoff")
            => now > Deadline(response'.bookingId)]_vars

\* a cancel of a live reservation was just rejected for the cutoff
LateCancelRejected ==
  /\ response.op = "cancel" /\ response.why = "cutoff"
  /\ bookings[response.bookingId].status = "CONFIRMED"
  /\ now > Deadline(response.bookingId)

\* the member profile of a self-service user
OwnMemberId(u) == (CHOOSE m \in Members : m.userId = u).id

\* C15: a MEMBER's create is resolved to the own profile or, if it names
\* another owner, rejected; a privileged create without an owner or with an
\* unknown one is rejected; these rejections create nothing; and a row a
\* MEMBER's create commits is owned by the MEMBER's profile
OwnerResolution ==
  [][/\ \A u \in Users, r \in MemberIdInputs :
          LET m == resolveMemberId(u, r)
          IN IF role(u) = "MEMBER"
             THEN IF r \in {None, OwnMemberId(u)}
                  THEN m.ok /\ m.value = OwnMemberId(u)
                  ELSE ~m.ok
             ELSE IF r = None \/ r \notin MemberIds THEN ~m.ok
                  ELSE m.ok /\ m.value = r
     /\ \A c \in Calls :
          /\ (calls[c].pc = "idle" /\ calls'[c].op = "create")
               => /\ calls'[c].memberId \in MemberIds
                  /\ role(calls'[c].userId) = "MEMBER"
                       => calls'[c].memberId = OwnMemberId(calls'[c].userId)
          /\ (/\ calls[c].op = "create" /\ role(calls[c].userId) = "MEMBER"
              /\ response'.call = c /\ Len(bookings') > Len(bookings))
               => bookings'[Len(bookings')].memberId = OwnMemberId(calls[c].userId)
     /\ response'.why \in {"memberMismatch", "memberRequired", "member"}
          => (response'.kind # "OK" /\ bookings' = bookings
              /\ bookingGames' = bookingGames /\ games' = games)]_vars

\* a MEMBER who named another owner was just rejected
ForeignOwnerRejected ==
  /\ response.op = "create" /\ response.why = "memberMismatch"
  /\ response.kind = "Forbidden"

\* C16: a MEMBER's cancel of a reservation of another member is refused
\* whatever the reservation's status and start, and no such call reaches
\* the transaction; a privileged cancel is never refused for ownership and
\* passes when the reservation is not CANCELLED and the deadline has not passed
CancelAuthorization ==
  [][/\ \A u \in Users, b \in 1..Len(bookings) :
          LET r == cancelChecks(u, b)
          IN IF role(u) = "MEMBER"
             THEN bookings[b].memberId # OwnMemberId(u) => ~r.ok
             ELSE /\ r.kind # "Forbidden"
                  /\ (bookings[b].status # "CANCELLED" /\ now <= Deadline(b)) => r.ok
     /\ \A c \in Calls :
          (/\ calls[c].op = "cancel" /\ role(calls[c].userId) = "MEMBER"
           /\ bookings'[calls[c].bookingId].status # bookings[calls[c].bookingId].status)
            => bookings[calls[c].bookingId].memberId = OwnMemberId(calls[c].userId)
     /\ \A c \in Calls :
          (calls[c].pc = "idle" /\ calls'[c].op = "cancel"
           /\ role(calls'[c].userId) = "MEMBER")
            => bookings[calls'[c].bookingId].memberId = OwnMemberId(calls'[c].userId)]_vars

\* a cancel of a live reservation, still before its deadline, was just
\* refused for ownership
ForeignCancelRefused ==
  /\ response.op = "cancel" /\ response.why = "notOwner"
  /\ response.kind = "Forbidden"
  /\ bookings[response.bookingId].status = "CONFIRMED"
  /\ now <= Deadline(response.bookingId)

\* rows1 and rows2 hold the same reservations of member m, under the same ids
SameOwn(rows1, rows2, m) ==
  \A i \in 1..(Len(rows1) + Len(rows2)) :
     ((i <= Len(rows1) /\ rows1[i].memberId = m) \/ (i <= Len(rows2) /\ rows2[i].memberId = m))
        => (i <= Len(rows1) /\ i <= Len(rows2) /\ rows1[i] = rows2[i])

\* C17: whatever the filters, the list a MEMBER gets holds only
\* reservations of the MEMBER's own profile, and it is the list the MEMBER
\* gets in every stored state with the same own reservations
ListVisibility ==
  (response.op = "list" /\ role(response.value.userId) = "MEMBER")
     => LET u == response.value.userId
            q == response.value.query
        IN /\ \A i \in response.value.ids : bookings[i].memberId = OwnMemberId(u)
           /\ \A rows2 \in ListedBookings :
                SameOwn(bookings, rows2, OwnMemberId(u))
                   => bookingsList(rows2, u, q) = response.value.ids

\* a MEMBER who filtered for the other member just got a list of the own
\* reservations, while the other member has one too
OwnListDespiteFilter ==
  /\ response.op = "list" /\ role(response.value.userId) = "MEMBER"
  /\ response.value.query.memberId \notin {None, OwnMemberId(response.value.userId)}
  /\ response.value.ids # {}
  /\ \E i \in 1..Len(bookings) : bookings[i].memberId = response.value.query.memberId

\* some non-cancelled reservation on the table of call c has
\* start < c.endAt and end > c.startAt
Blocked(c) ==
  \E i \in 1..Len(bookings) :
     /\ bookings[i].status # "CANCELLED"
     /\ bookings[i].tableId = calls[c].tableId
     /\ bookings[i].startAt < calls[c].endAt
     /\ bookings[i].endAt > calls[c].startAt

\* C18: at the overlap guard a create is aborted with the conflict exactly
\* when the half-open predicate holds for some non-cancelled reservation of
\* the table, and goes on otherwise; a create without games that is still
\* not blocked when it commits is accepted
OverlapGuard ==
  [][\A c \in Calls :
       /\ (calls[c].pc = "txBegin" /\ calls'[c] # calls[c])
            => IF Blocked(c)
               THEN /\ calls'[c].pc = "idle" /\ bookings' = bookings
                    /\ response'.call = c /\ response'.kind = "Conflict"
               ELSE calls'[c].pc = "txWrite" /\ response'.op = "none"
       /\ (/\ calls[c].pc = "txWrite" /\ calls'[c].pc = "idle"
           /\ calls[c].agg = <<>> /\ ~Blocked(c))
            => /\ response'.kind = "OK"
               /\ bookings' = Append(bookings, bookings'[Len(bookings')])
               /\ bookings'[Len(bookings')].tableId = calls[c].tableId
               /\ bookings'[Len(bookings')].startAt = calls[c].startAt]_vars

\* a reservation was just accepted that starts when another live one on
\* the same table ends
AdjacentAccepted ==
  /\ response.op = "create" /\ response.kind = "OK" /\ response.bookingId = 2
  /\ bookings[1].status = "CONFIRMED"
  /\ bookings[1].tableId = bookings[2].tableId
  /\ bookings[1].endAt = bookings[2].startAt

\* a reservation was just accepted whose window overlaps only a CANCELLED one
OverCancelledAccepted ==
  /\ response.op = "create" /\ response.kind = "OK" /\ response.bookingId = 2
  /\ bookings[1].status = "CANCELLED"
  /\ bookings[1].tableId = bookings[2].tableId
  /\ Overlap(bookings[1], bookings[2])

\* the calendar day of an instant, and the instant of hour h of that day
DayOf(t) == t \div (24 * 60 * 60 * 1000)
HourOfDay(t, h) == DayOf(t) * (24 * 60 * 60 * 1000) + h * (60 * 60 * 1000)

\* C19: isWithinOpeningHours is true exactly when startAt and endAt are on
\* the same calendar day, startAt is not before that day's opening hour and
\* endAt is not after its closing hour
OperatingWindow ==
  response.op = "hours"
     => LET v == response.value
        IN v.result <=> (/\ DayOf(v.startAt) = DayOf(v.endAt)
                         /\ ~(v.startAt < HourOfDay(v.startAt, v.openHour))
                         /\ ~(v.endAt > HourOfDay(v.startAt, v.closeHour)))

\* a window from the opening instant to the closing instant was accepted
OpenToCloseAccepted ==
  /\ response.op = "hours" /\ response.value.result
  /\ response.value.startAt = At(1, 15, 0) /\ response.value.endAt = At(1, 23, 0)
  /\ response.value.openHour = 15 /\ response.value.closeHour = 23

\* C20: a create or cancel whose transaction committed is answered as a
\* success, whatever becomes of the audit record, and its writes stay
AuditFireAndForget ==
  [][/\ Len(bookings') > Len(bookings) => response'.kind = "OK"
     /\ (\E i \in 1..Len(bookings) : bookings'[i].status # bookings[i].status)
          => response'.kind = "OK"]_vars

\* the conditional decrement of call c for its i-th game is reached and
\* matches no row: the transaction sees less stock than the quantity
NoRowMatched(c, i) ==
  /\ i \in 1..Len(calls[c].agg)
  /\ calls[c].snapStock[calls[c].agg[i].gameId] < calls[c].agg[i].quantity
  /\ \A j \in 1..(i - 1) :
        /\ calls[c].snapStock[calls[c].agg[j].gameId] >= calls[c].agg[j].quantity
        /\ calls[c].agg[j].gameId \notin calls[c].stale

\* C21: a create whose selection asks more than stockAvailable of an active
\* game at the pre-check ends there as a bad request, before its transaction
\* begins, and only selections within the stock go on; a create whose
\* decrement matches no row in its transaction ends as a conflict; both
\* leave reservations, holds and stock as they were
StockShortage ==
  [][\A c \in Calls :
       /\ (calls[c].pc = "games" /\ calls'[c] # calls[c])
            => /\ \A s \in Selections :
                    LET agg == aggregateSelection(s)
                    IN (/\ \A i \in 1..Len(agg) : games[agg[i].gameId].isActive
                        /\ \E i \in 1..Len(agg) :
                              agg[i].quantity > games[agg[i].gameId].stockAvailable)
                         => (gamesCheck(agg).kind = "BadRequest" /\ gamesCheck(agg).why = "stock")
               /\ calls'[c].pc = "txBegin"
                    => \A i \in 1..Len(calls'[c].agg) :
                          calls'[c].agg[i].quantity
                             <= games[calls'[c].agg[i].gameId].stockAvailable
       /\ (response'.call = c /\ response'.why = "stock")
            => /\ calls[c].pc = "games" /\ calls'[c] = IdleCall
               /\ response'.kind = "BadRequest"
               /\ bookings' = bookings /\ bookingGames' = bookingGames /\ games' = games
       /\ (/\ calls[c].pc = "txWrite" /\ calls'[c].pc = "idle" /\ TableFree(c)
           /\ \E i \in 1..Len(calls[c].agg) : NoRowMatched(c, i))
            => /\ response'.kind = "Conflict"
               /\ bookings' = bookings /\ bookingGames' = bookingGames
               /\ games' = games]_vars

\* a create that passed the pre-check was just aborted as a conflict: the
\* one reservation there is holds the only copy of the game
ShortageAtCommit ==
  /\ response.op = "create" /\ response.kind = "Conflict" /\ response.why = "stockChanged"
  /\ Len(bookings) = 1 /\ bookings[1].status = "CONFIRMED"
  /\ \E g \in GameIds :
       /\ games[g].stockAvailable = 0
       /\ \E h \in bookingGames : h.bookingId = 1 /\ h.boardGameId = g

\* the first rule, in the order timestamp shape, slot duration, operating
\* window, future-only, party capacity, that a request for table t, window w
\* and p people violates
FirstViolated(t, w, p) ==
  IF w[1] = NaNDate \/ w[2] = NaNDate THEN "dates"
  ELSE IF w[2] - w[1] # bookingSlotMinutes * 60 * 1000 THEN "slot"
  ELSE IF \/ DayOf(w[1]) # DayOf(w[2])
          \/ w[1] < HourOfDay(w[1], bookingOpenHour)
          \/ w[2] > HourOfDay(w[1], bookingCloseHour) THEN "hours"
  ELSE IF ~(w[1] > now) THEN "past"
  ELSE IF t \in DOMAIN tables /\ p > tables[t].capacity THEN "capacity"
  ELSE "none"

\* C22: a create request that violates one of the rules timestamp shape,
\* slot duration, operating window, future-only, party capacity is rejected
\* with the rejection of the first of them it violates, whoever sends it and
\* whatever owner it names, and nothing is written
FailFastOrder ==
  [][\A c \in Calls, u \in Users, rm \in MemberIdInputs, t \in TableIdInputs,
        w \in Windows, p \in PeopleCounts :
       (CreateStart(c, {u}, {rm}, {t}, {w}, {p}) /\ FirstViolated(t, w, p) # "none")
          => /\ response'.call = c /\ response'.kind = "BadRequest"
             /\ response'.why = FirstViolated(t, w, p)
             /\ calls' = calls /\ bookings' = bookings]_vars

\* the quantity the picks of list s ask of game g in total
RECURSIVE Requested(_, _)
Requested(s, g) ==
  IF s = <<>> THEN 0
  ELSE (IF s[1].gameId = g THEN s[1].quantity ELSE 0) + Requested(Tail(s), g)

\* the hold rows of reservation b for game g
HoldsOf(rows, b, g) == {h \in rows : h.bookingId = b /\ h.boardGameId = g}

\* C23: for every list of picks, a create compares each game's total
\* requested quantity with the stock and goes on with one entry per distinct
\* game carrying that total; the entries stay as they are until the commit,
\* which writes one hold per entry with its quantity and lowers the game's
\* stockAvailable by exactly that quantity
PickAggregation ==
  [][\A c \in Calls :
       /\ \A s \in Selections :
            CreateGames(c, {s})
              => IF \E g \in GameIds : Requested(s, g) > games[g].stockAvailable
                 THEN /\ response'.call = c /\ response'.why = "stock"
                      /\ calls'[c] = IdleCall
                 ELSE /\ calls'[c].pc = "txBegin"
                      /\ \A g \in GameIds :
                           LET entries == {i \in 1..Len(calls'[c].agg) :
                                             calls'[c].agg[i].gameId = g}
                           IN IF Requested(s, g) = 0 THEN entries = {}
                              ELSE /\ Cardinality(entries) = 1
                                   /\ \A i \in entries :
                                        calls'[c].agg[i].quantity = Requested(s, g)
       /\ (calls[c].pc \in {"txBegin", "txWrite"} /\ calls'[c].pc # "idle")
            => calls'[c].agg = calls[c].agg
       /\ (calls[c].pc = "txWrite" /\ response'.call = c /\ response'.kind = "OK")
            => \A g \in GameIds :
                 LET entries == {i \in 1..Len(calls[c].agg) : calls[c].agg[i].gameId = g}
                     quantity == IF entries = {} THEN 0
                                 ELSE calls[c].agg[CHOOSE i \in entries : TRUE].quantity
                     holds == HoldsOf(bookingGames', response'.bookingId, g)
                 IN /\ HoldsOf(bookingGames, response'.bookingId, g) = {}
                    /\ IF quantity = 0 THEN holds = {}
                       ELSE /\ Cardinality(holds) = 1
                            /\ \A h \in holds : h.quantity = quantity
                    /\ games'[g].stockAvailable = games[g].stockAvailable - quantity]_vars

\* a create that picked one game twice was just accepted: one hold of two
\* copies, and the stock of the game went from two to none
RepeatedPickHeld ==
  /\ response.op = "create" /\ response.kind = "OK"
  /\ \E g \in GameIds :
       /\ HoldsOf(bookingGames, response.bookingId, g)
            = {[bookingId |-> response.bookingId, boardGameId |-> g, quantity |-> 2]}
       /\ games[g].stockAvailable = 0 /\ games[g].stockTotal = 2

\* C24: a create whose selection names a game id that no game has is
\* rejected with the not-found kind
UnknownGameNotFound ==
  [][\A c \in Calls, s \in UnknownGameSelections :
       (CreateGames(c, {s}) /\ \E i \in 1..Len(s) : s[i].gameId \notin DOMAIN games)
          => (response'.call = c /\ response'.kind = "NotFound")]_vars

NoRetry ==
  /\ [][\A c \in Calls :
          (calls[c].pc \in {"txBegin", "txWrite", "cancelTx"} /\ calls'[c].pc # calls[c].pc)
             => \/ /\ calls[c].pc = "txBegin" /\ calls'[c].pc = "txWrite"
                   /\ response'.op = "none"
                \/ /\ calls'[c] = IdleCall
                   /\ response'.call = c /\ response'.kind # ""]_vars
  /\ \A c \in Calls : (calls[c].pc # "idle") ~> (calls[c].pc = "idle")

\* a create's transaction was just aborted by the exclusion constraint, and
\* the call has ended
AbortedOnce ==
  /\ response.op = "create" /\ response.kind = "DbError" /\ response.why = "constraint"
  /\ calls[response.call] = IdleCall
  /\ Len(bookings) = 1

\* C27: a refresh call revokes, and then succeeds with, only a token that no
\* refresh call has revoked before
RefreshSingleUse ==
  [][\A c \in Calls :
       (calls[c].pc = "revoke" /\ calls'[c].pc = "issue")
          => ~refreshTokens[calls[c].matchedTokenId].revoked]_vars

\* the copies of game g held by reservations that are not CANCELLED
RECURSIVE HeldLive(_, _)
HeldLive(rows, g) ==
  IF rows = {} THEN 0
  ELSE LET h == CHOOSE x \in rows : TRUE
       IN (IF h.boardGameId = g /\ bookings[h.bookingId].status # "CANCELLED"
           THEN h.quantity ELSE 0) + HeldLive(rows \ {h}, g)

\* C28: with no catalog edit, in every reachable state each game's
\* stockAvailable plus the copies held by reservations that are not
\* CANCELLED equals its initial stockAvailable
StockConservation ==
  \A g \in GameIds :
     games[g].stockAvailable + HeldLive(bookingGames, g) = (IF g = 1 THEN MaxStock ELSE 1)

\* the rejection of a cancel of reservation b by user u, by the order unknown
\* reservation, not the owner, already cancelled, past the cutoff
CancelRejection(u, b) ==
  IF b \notin 1..Len(bookings) THEN <<"NotFound", "booking">>
  ELSE IF role(u) = "MEMBER" /\ bookings[b].memberId # OwnMemberId(u)
  THEN <<"Forbidden", "notOwner">>
  ELSE IF bookings[b].status = "CANCELLED" THEN <<"BadRequest", "alreadyCancelled">>
  ELSE IF now > Deadline(b) THEN <<"BadRequest", "cutoff">>
  ELSE <<"OK", "ok">>

\* C29: a cancel request is rejected with the first failing check of the
\* order unknown reservation, not the owner, already cancelled, past the
\* cutoff, and then no reservation, hold, stock or call changes; a request
\* that passes them all goes on to its transaction
RejectedCancelFrame ==
  [][\A c \in Calls, u \in Users, b \in 1..MaxBookings :
       CancelStart(c, {u}, {b})
          => IF CancelRejection(u, b)[1] = "OK"
             THEN calls'[c].pc = "cancelTx" /\ response'.op = "none"
             ELSE /\ response'.call = c /\ response'.op = "cancel"
                  /\ <<response'.kind, response'.why>> = CancelRejection(u, b)
                  /\ bookings' = bookings /\ bookingGames' = bookingGames
                  /\ games' = games /\ calls' = calls]_vars

\* a cancel of a CANCELLED reservation that holds a game, past its cutoff,
\* was just refused for ownership
ForeignCancelledRefused ==
  /\ response.op = "cancel" /\ response.kind = "Forbidden" /\ response.why = "notOwner"
  /\ bookings[response.bookingId].status = "CANCELLED"
  /\ now > Deadline(response.bookingId)
  /\ \E h \in bookingGames : h.bookingId = response.bookingId

\* C30: when a create commits its reservation, the reserved table is active
\* and its capacity is at least the reservation's party size
TableChecksAtCommit ==
  [][Len(bookings') > Len(bookings)
       => LET created == bookings'[Len(bookings')]
          IN /\ tables[created.tableId].isActive
             /\ created.peopleCount <= tables[created.tableId].capacity]_vars

====
